---- MODULE Spec2Model ----
(***************************************************************************)
(* Model of quest/viz.py: the analysis done by render_production_graph,   *)
(* render_pool_composition, render_cycle_analysis and the batch driver    *)
(* (process, __main__).  Rendering calls (matplotlib) are left out; every  *)
(* value they are handed is kept in the state.                             *)
(***************************************************************************)
EXTENDS Integers, Sequences, FiniteSets, TLC

VARIABLES
    pc,            \* position in the function being run
    edges,         \* result['productionEdges']
    G,             \* the nx.DiGraph
    degrees,       \* dict(G.degree())
    in_degrees,    \* dict(G.in_degree())
    max_deg, max_in, max_w,
    node_sizes,    \* per node, degrees/max_deg as <<numerator, denominator>>
    node_colors,   \* per node, in_degrees/max_in as <<numerator, denominator>>
    mutual_edges,  \* list of (u, v)
    title,         \* the numbers written into the figure title
    discovered,    \* cycles, as appended in the search loop (before the sort)
    cycles,        \* cycles, after cycles.sort
    top_cycles,    \* cycles[:20]
    scan,          \* the order in which the cycle search picks start nodes
    snapshots,     \* result['snapshots']
    iter_order,    \* iteration order of the set all_strands
    top_strands, strand_counts, other, ops, pool_sizes, unique_counts,
    batch,         \* the records named on the command line
    bi,            \* index of the record being processed
    done_log       \* per record, the artifacts written for it

vars == <<pc, edges, G, degrees, in_degrees, max_deg, max_in, max_w, node_sizes,
          node_colors, mutual_edges, title, discovered, cycles, top_cycles, scan,
          snapshots, iter_order, top_strands, strand_counts, other, ops,
          pool_sizes, unique_counts, batch, bi, done_log>>

graphVars == <<G, degrees, in_degrees, max_deg, max_in, max_w, node_sizes,
               node_colors, mutual_edges>>
cycleVars == <<discovered, cycles, top_cycles, scan>>
compVars  == <<snapshots, iter_order, top_strands, strand_counts, other, ops,
               pool_sizes, unique_counts>>
batchVars == <<batch, bi, done_log>>

(***************************************************************************)
(* Bounds of the model.                                                    *)
(***************************************************************************)
NumNodes == 5
MaxCount == 2
MaxExtra == 1

Nodes  == 1..NumNodes
Counts == 1..MaxCount

(***************************************************************************)
(* Generic helpers.                                                        *)
(***************************************************************************)
Range(s) == {s[i] : i \in 1..Len(s)}

RECURSIVE SumUpTo(_, _)
SumUpTo(s, n) == IF n = 0 THEN 0 ELSE s[n] + SumUpTo(s, n - 1)

SumSeq(s) == SumUpTo(s, Len(s))

RECURSIVE SumOver(_, _)
SumOver(f, S) ==
    IF S = {} THEN 0
    ELSE LET x == CHOOSE y \in S : TRUE IN f[x] + SumOver(f, S \ {x})

\* Python's max() of a non-empty collection of integers
MaxOf(S) == CHOOSE m \in S : \A x \in S : x <= m

RECURSIVE Concat(_)
Concat(ss) == IF ss = <<>> THEN <<>> ELSE ss[1] \o Concat(Tail(ss))

(***************************************************************************)
(* Production edges and the inputs the model is run on.                    *)
(***************************************************************************)
Edge(u, v, c) == [catalyst |-> u, product |-> v, count |-> c]

AllEdges == {Edge(u, v, c) : u \in Nodes, v \in Nodes, c \in Counts}

\* a ring 1 -> 2 -> ... -> n -> 1 (n = 1: a self-loop, n = 0: no edge)
RingEdges(n) == [i \in 1..n |-> Edge(i, (i % n) + 1, ((i - 1) % MaxCount) + 1)]

\* every ordered pair u # v, edges leaving h counted a, the others b
DenseEdges(h, a, b) ==
    [k \in 1..(NumNodes * (NumNodes - 1)) |->
        LET u == ((k - 1) \div (NumNodes - 1)) + 1
            j == ((k - 1) % (NumNodes - 1)) + 1
            v == IF j < u THEN j ELSE j + 1
        IN Edge(u, v, IF u = h THEN a ELSE b)]

ExtraSeqs == UNION {[1..k -> AllEdges] : k \in 0..MaxExtra}

EdgeInputs ==
    {RingEdges(n) \o x : n \in 0..NumNodes, x \in ExtraSeqs}
    \cup {DenseEdges(h, a, b) : h \in Nodes, a \in Counts, b \in Counts}

(***************************************************************************)
(* nx.DiGraph: nodes and adjacency in insertion order, one attribute dict  *)
(* per ordered pair.                                                       *)
(***************************************************************************)
EmptyGraph ==
    [nodes  |-> <<>>,
     succ   |-> [n \in Nodes |-> <<>>],
     pred   |-> [n \in Nodes |-> <<>>],
     weight |-> [p \in Nodes \X Nodes |-> 0]]

AddNode(g, n) ==
    IF n \in Range(g.nodes) THEN g ELSE [g EXCEPT !.nodes = Append(@, n)]

HasEdge(g, u, v) == v \in Range(g.succ[u])

\* variant: the count is added to the weight already there
AddEdgeSum(g, u, v, w) ==
    LET g1 == AddNode(AddNode(g, u), v)
        g2 == IF HasEdge(g1, u, v) THEN g1
              ELSE [g1 EXCEPT !.succ[u] = Append(@, v), !.pred[v] = Append(@, u)]
    IN [g2 EXCEPT !.weight[<<u, v>>] = @ + w]

\* G.add_edge(u, v, weight=w)
AddEdge(g, u, v, w) ==
    LET g1 == AddNode(AddNode(g, u), v)
        g2 == IF HasEdge(g1, u, v) THEN g1
              ELSE [g1 EXCEPT !.succ[u] = Append(@, v), !.pred[v] = Append(@, u)]
    IN [g2 EXCEPT !.weight[<<u, v>>] = w]

RECURSIVE BuildFrom(_, _)
\* for e in edges: G.add_edge(e['catalyst'], e['product'], weight=e['count'])
\* (the test on h makes TLC evaluate the graph built so far at every step)
BuildFrom(g, es) ==
    IF es = <<>> THEN g
    ELSE LET h == AddEdge(g, es[1].catalyst, es[1].product, es[1].count)
         IN IF h.nodes = <<>> THEN h ELSE BuildFrom(h, Tail(es))

BuildGraph(es) == BuildFrom(EmptyGraph, es)

\* G.edges: for u in G.nodes, for v in G.succ[u]
EdgeList(g) ==
    Concat([i \in 1..Len(g.nodes) |->
              [j \in 1..Len(g.succ[g.nodes[i]]) |->
                  <<g.nodes[i], g.succ[g.nodes[i]][j]>>]])

\* variant: a neighbour is counted once, so a self-loop adds 1, not 2
DegreeLoopOnce(g) ==
    [n \in Range(g.nodes) |-> Cardinality(Range(g.succ[n]) \cup Range(g.pred[n]))]

\* G.degree(): in-degree plus out-degree
Degree(g) == [n \in Range(g.nodes) |-> Len(g.succ[n]) + Len(g.pred[n])]

\* G.in_degree()
InDegree(g) == [n \in Range(g.nodes) |-> Len(g.pred[n])]

Values(d) == {d[k] : k \in DOMAIN d}

\* variant: min in place of max
MaxInMin(d) == IF DOMAIN d # {} THEN CHOOSE m \in Values(d) : \A x \in Values(d) : m <= x ELSE 1

\* max(d.values()) if d else 1
MaxDeg(d) == IF DOMAIN d # {} THEN MaxOf(Values(d)) ELSE 1
MaxIn(d)  == IF DOMAIN d # {} THEN MaxOf(Values(d)) ELSE 1

\* weights = [G[u][v]['weight'] for u, v in G.edges]; max(weights) if weights else 1
MaxW(g) ==
    LET ws == {g.weight[e] : e \in Range(EdgeList(g))}
    IN IF ws # {} THEN MaxOf(ws) ELSE 1

\* for u, v in G.edges: if G.has_edge(v, u): mutual_edges.append((u, v))
MutualEdges(g) == SelectSeq(EdgeList(g), LAMBDA e : HasEdge(g, e[2], e[1]))

(***************************************************************************)
(* simple_cycles(G, length_bound) of networkx, as used at the call: first  *)
(* the self-loops, then, start node after start node, the cycles through   *)
(* the start node found by a search of at most length_bound hops, the      *)
(* start node being removed from the graph afterwards.                     *)
(***************************************************************************)
LengthBound == 4
TopCycles == 20

SelfLoops(g) ==
    LET looped == SelectSeq(g.nodes, LAMBDA v : HasEdge(g, v, v))
    IN [i \in 1..Len(looped) |-> <<looped[i]>>]

RECURSIVE CyclesFrom(_, _, _, _, _)
CyclesFrom(g, alive, v, path, bound) ==
    LET last == path[Len(path)]
        nxt  == g.succ[last]
    IN Concat([j \in 1..Len(nxt) |->
                 LET w == nxt[j] IN
                 IF w \notin alive \/ w = last THEN <<>>
                 ELSE IF w = v THEN <<path>>
                 ELSE IF w \in Range(path) \/ Len(path) >= bound THEN <<>>
                 ELSE CyclesFrom(g, alive, v, Append(path, w), bound)])

RECURSIVE CycleSearch(_, _, _, _)
CycleSearch(g, order, alive, bound) ==
    IF order = <<>> THEN <<>>
    ELSE CyclesFrom(g, alive, order[1], <<order[1]>>, bound)
         \o CycleSearch(g, Tail(order), alive \ {order[1]}, bound)

SimpleCycles(g, order, bound) ==
    SelfLoops(g) \o CycleSearch(g, order, Nodes, bound)

\* the start orders the model tries: ascending and descending
ScanOrders == {[i \in 1..NumNodes |-> i], [i \in 1..NumNodes |-> NumNodes + 1 - i]}

\* total_w += G[u][v]['weight'] for u, v = cycle[i], cycle[(i + 1) % len(cycle)]
CycleWeight(g, cycle) ==
    SumSeq([i \in 1..Len(cycle) |-> g.weight[<<cycle[i], cycle[(i % Len(cycle)) + 1]>>]])

\* variant: no length test
KeepAll(cycle) == TRUE

\* if len(cycle) >= 2
KeepCycle(cycle) == Len(cycle) >= 2

\* the loop over nx.simple_cycles(G, length_bound=4)
FindCycles(g, order) ==
    LET kept == SelectSeq(SimpleCycles(g, order, LengthBound), KeepCycle)
    IN [i \in 1..Len(kept) |-> [cycle |-> kept[i], weight |-> CycleWeight(g, kept[i])]]

\* variant: ascending
InsertAsc(s, x) ==
    SelectSeq(s, LAMBDA y : y.weight <= x.weight) \o <<x>>
    \o SelectSeq(s, LAMBDA y : y.weight > x.weight)

\* one step of a stable descending sort: x goes after every entry at least as heavy
InsertDesc(s, x) ==
    SelectSeq(s, LAMBDA y : y.weight >= x.weight) \o <<x>>
    \o SelectSeq(s, LAMBDA y : y.weight < x.weight)

RECURSIVE SortInto(_, _)
SortInto(sorted, rest) ==
    IF rest = <<>> THEN sorted
    ELSE LET h == InsertDesc(sorted, rest[1])
         IN IF h = <<>> THEN h ELSE SortInto(h, Tail(rest))

\* cycles.sort(key=lambda x: x[1], reverse=True)
SortCycles(cs) == SortInto(<<>>, cs)

Min(a, b) == IF a < b THEN a ELSE b

\* cycles[:20]
Truncate(cs) == SubSeq(cs, 1, Min(TopCycles, Len(cs)))

(***************************************************************************)
(* Initial values of the variables a specification does not use.           *)
(***************************************************************************)
GraphIdle ==
    /\ G = EmptyGraph
    /\ degrees = <<>> /\ in_degrees = <<>>
    /\ max_deg = 0 /\ max_in = 0 /\ max_w = 0
    /\ node_sizes = <<>> /\ node_colors = <<>>
    /\ mutual_edges = <<>>

CycleIdle ==
    /\ discovered = <<>> /\ cycles = <<>> /\ top_cycles = <<>>
    /\ scan = <<>>

CompIdle ==
    /\ iter_order = <<>> /\ top_strands = <<>> /\ strand_counts = <<>>
    /\ other = <<>> /\ ops = <<>> /\ pool_sizes = <<>> /\ unique_counts = <<>>

BatchIdle == batch = <<>> /\ bi = 0 /\ done_log = <<>>

NoTitle == [nodes |-> 0, edges |-> 0, mutual |-> 0, found |-> 0]

(***************************************************************************)
(* render_production_graph                                                 *)
(***************************************************************************)
InitGraph ==
    /\ pc = "graph_start"
    /\ edges \in EdgeInputs
    /\ snapshots = <<>>
    /\ title = NoTitle
    /\ GraphIdle /\ CycleIdle /\ CompIdle /\ BatchIdle

\* if not edges: print(...); return
G_NoEdges ==
    /\ pc = "graph_start"
    /\ edges = <<>>
    /\ pc' = "graph_skipped"
    /\ UNCHANGED <<edges, title, graphVars, cycleVars, compVars, batchVars>>

\* G = nx.DiGraph(); for e in edges: G.add_edge(...); if len(G.nodes) == 0: return
G_Build ==
    /\ pc = "graph_start"
    /\ edges # <<>>
    /\ G' = BuildGraph(edges)
    /\ pc' = IF Len(G'.nodes) = 0 THEN "graph_returned" ELSE "graph_built"
    /\ UNCHANGED <<edges, title, degrees, in_degrees, max_deg, max_in, max_w,
                   node_sizes, node_colors, mutual_edges, cycleVars, compVars,
                   batchVars>>

\* node sizing, node coloring, edge widths, in this order; a zero divisor raises
G_Metrics ==
    /\ pc = "graph_built"
    /\ degrees' = Degree(G)
    /\ max_deg' = MaxDeg(degrees')
    /\ IF max_deg' = 0
       THEN /\ pc' = "ZeroDivisionError"
            /\ UNCHANGED <<node_sizes, in_degrees, max_in, node_colors, max_w>>
       ELSE /\ node_sizes' = [n \in Range(G.nodes) |-> <<degrees'[n], max_deg'>>]
            /\ in_degrees' = InDegree(G)
            /\ max_in' = MaxIn(in_degrees')
            /\ IF max_in' = 0
               THEN /\ pc' = "ZeroDivisionError"
                    /\ UNCHANGED <<node_colors, max_w>>
               ELSE /\ node_colors' = [n \in Range(G.nodes) |-> <<in_degrees'[n], max_in'>>]
                    /\ max_w' = MaxW(G)
                    /\ pc' = IF max_w' = 0 THEN "ZeroDivisionError" ELSE "graph_metrics"
    /\ UNCHANGED <<edges, title, G, mutual_edges, cycleVars, compVars, batchVars>>

\* find mutual pairs for highlighting
G_Mutual ==
    /\ pc = "graph_metrics"
    /\ mutual_edges' = MutualEdges(G)
    /\ pc' = "graph_mutual"
    /\ UNCHANGED <<edges, title, G, degrees, in_degrees, max_deg, max_in, max_w,
                   node_sizes, node_colors, cycleVars, compVars, batchVars>>

\* drawing, the title and savefig
G_Save ==
    /\ pc = "graph_mutual"
    /\ title' = [title EXCEPT !.nodes = Len(G.nodes),
                              !.edges = Len(EdgeList(G)),
                              !.mutual = Len(mutual_edges)]
    /\ pc' = "graph_saved"
    /\ UNCHANGED <<edges, graphVars, cycleVars, compVars, batchVars>>

NextGraph == G_NoEdges \/ G_Build \/ G_Metrics \/ G_Mutual \/ G_Save

SpecGraph == InitGraph /\ [][NextGraph]_vars

(***************************************************************************)
(* render_cycle_analysis                                                   *)
(***************************************************************************)
InitCycles ==
    /\ pc = "cycles_start"
    /\ edges \in EdgeInputs
    /\ snapshots = <<>>
    /\ title = NoTitle
    /\ GraphIdle /\ CycleIdle /\ CompIdle /\ BatchIdle

\* if not edges: return
C_NoEdges ==
    /\ pc = "cycles_start"
    /\ edges = <<>>
    /\ pc' = "cycles_returned"
    /\ UNCHANGED <<edges, title, graphVars, cycleVars, compVars, batchVars>>

C_Build ==
    /\ pc = "cycles_start"
    /\ edges # <<>>
    /\ G' = BuildGraph(edges)
    /\ pc' = "cycles_built"
    /\ UNCHANGED <<edges, title, degrees, in_degrees, max_deg, max_in, max_w,
                   node_sizes, node_colors, mutual_edges, cycleVars, compVars,
                   batchVars>>

\* the search loop, appending (cycle, total_w)
C_Find ==
    /\ pc = "cycles_built"
    /\ \E order \in ScanOrders :
          /\ scan' = order
          /\ discovered' = FindCycles(G, order)
    /\ cycles' = discovered'
    /\ pc' = "cycles_found"
    /\ UNCHANGED <<edges, title, graphVars, top_cycles, compVars, batchVars>>

C_Sort ==
    /\ pc = "cycles_found"
    /\ cycles' = SortCycles(cycles)
    /\ pc' = "cycles_sorted"
    /\ UNCHANGED <<edges, title, graphVars, discovered, top_cycles, scan,
                   compVars, batchVars>>

\* the table of the top 20 (none when no cycle was found), the title, savefig
C_Show ==
    /\ pc = "cycles_sorted"
    /\ top_cycles' = IF cycles = <<>> THEN <<>> ELSE Truncate(cycles)
    /\ title' = [title EXCEPT !.found = Len(cycles)]
    /\ pc' = "cycles_saved"
    /\ UNCHANGED <<edges, graphVars, discovered, cycles, scan, compVars, batchVars>>

NextCycles == C_NoEdges \/ C_Build \/ C_Find \/ C_Sort \/ C_Show

SpecCycles == InitCycles /\ [][NextCycles]_vars

(***************************************************************************)
(* render_pool_composition                                                 *)
(***************************************************************************)
TOP_N == 20
NumStrands == 21
MaxSnaps == 2

Strands == 1..NumStrands

\* snap['pool'].get(s, 0)
Get(pool, x) == IF x \in DOMAIN pool THEN pool[x] ELSE 0

\* a pool: strands 1..k once each, and the last strand counted d
Pool(k, d) == [x \in (1..k) \cup {NumStrands} |-> IF x = NumStrands THEN d ELSE 1]

Pools == {Pool(k, d) : k \in {0, TOP_N, NumStrands}, d \in 0..MaxCount}

PoolSum(pool) == SumSeq([x \in Strands |-> Get(pool, x)])

\* a snapshot whose poolSize agrees with the pool, or is short of it
Snapshot(pool, short) ==
    [op |-> 0, pool |-> pool, poolSize |-> PoolSum(pool) - short,
     uniqueCount |-> Cardinality({x \in DOMAIN pool : pool[x] > 0})]

SnapshotValues ==
    {sv \in {Snapshot(pool, short) : pool \in Pools, short \in {0, 1}} : sv.poolSize >= 0}

\* the snapshots are taken at operations 0, 1, 2, ...
SnapshotInputs ==
    UNION {{[i \in 1..k |-> [sn[i] EXCEPT !.op = i - 1]] : sn \in [1..k -> SnapshotValues]}
           : k \in 0..MaxSnaps}

\* all_strands.update(snap['pool'].keys()) for every snapshot
AllStrands(sn) == UNION {DOMAIN sn[i].pool : i \in 1..Len(sn)}

\* max(snap['pool'].get(s, 0) for snap in snapshots)
StrandMax(sn, x) == MaxOf({Get(sn[i].pool, x) : i \in 1..Len(sn)})

RECURSIVE Ascending(_)
Ascending(S) ==
    IF S = {} THEN <<>>
    ELSE LET m == CHOOSE y \in S : \A z \in S : y <= z
         IN <<m>> \o Ascending(S \ {m})

Reverse(q) == [i \in 1..Len(q) |-> q[Len(q) + 1 - i]]

\* the orders in which the set all_strands may be iterated that the model tries
IterOrders(S) == {Ascending(S), Reverse(Ascending(S))}

\* strand_max
StrandMaxOf(sn) == [x \in AllStrands(sn) |-> StrandMax(sn, x)]

\* one step of the stable descending sort by strand_max
InsertByMax(sorted, x, smax) ==
    SelectSeq(sorted, LAMBDA y : smax[y] >= smax[x]) \o <<x>>
    \o SelectSeq(sorted, LAMBDA y : smax[y] < smax[x])

RECURSIVE SortByMax(_, _, _)
SortByMax(sorted, rest, smax) ==
    IF rest = <<>> THEN sorted
    ELSE LET h == InsertByMax(sorted, rest[1], smax)
         IN IF h = <<>> THEN h ELSE SortByMax(h, Tail(rest), smax)

\* sorted(all_strands, key=lambda s: strand_max[s], reverse=True)[:TOP_N]
TopStrands(order, sn) ==
    LET smax   == StrandMaxOf(sn)
        ranked == SortByMax(<<>>, order, smax)
    IN SubSeq(ranked, 1, Min(TOP_N, Len(ranked)))

\* {s: [snap['pool'].get(s, 0) for snap in snapshots] for s in top_strands}
StrandCounts(top, sn) ==
    [x \in Range(top) |-> [i \in 1..Len(sn) |-> Get(sn[i].pool, x)]]

\* variant: a negative rest is clamped to 0
OtherAtClamped(sn, top, counts, i) ==
    LET d == sn[i].poolSize - SumSeq([j \in 1..Len(top) |-> counts[top[j]][i]])
    IN IF d < 0 THEN 0 ELSE d

\* total - top_total for snapshot i
OtherAt(sn, top, counts, i) ==
    sn[i].poolSize - SumSeq([j \in 1..Len(top) |-> counts[top[j]][i]])

InitComp ==
    /\ pc = "comp_start"
    /\ snapshots \in SnapshotInputs
    /\ edges = <<>>
    /\ title = NoTitle
    /\ GraphIdle /\ CycleIdle /\ CompIdle /\ BatchIdle

\* if len(snapshots) < 2: print(...); return
P_Skip ==
    /\ pc = "comp_start"
    /\ Len(snapshots) < 2
    /\ pc' = "comp_skipped"
    /\ UNCHANGED <<edges, title, graphVars, cycleVars, compVars, batchVars>>

\* all_strands, strand_max, top_strands, ops, strand_counts
P_Select ==
    /\ pc = "comp_start"
    /\ Len(snapshots) >= 2
    /\ \E order \in IterOrders(AllStrands(snapshots)) :
          /\ iter_order' = order
          /\ top_strands' = TopStrands(order, snapshots)
    /\ ops' = [i \in 1..Len(snapshots) |-> snapshots[i].op]
    /\ strand_counts' = StrandCounts(top_strands', snapshots)
    /\ pc' = "comp_selected"
    /\ UNCHANGED <<edges, title, graphVars, cycleVars, snapshots, other,
                   pool_sizes, unique_counts, batchVars>>

\* the "other" category
P_Other ==
    /\ pc = "comp_selected"
    /\ other' = [i \in 1..Len(snapshots) |->
                    OtherAt(snapshots, top_strands, strand_counts, i)]
    /\ pc' = "comp_other"
    /\ UNCHANGED <<edges, title, graphVars, cycleVars, snapshots, iter_order,
                   top_strands, strand_counts, ops, pool_sizes, unique_counts,
                   batchVars>>

\* the stacked area, the pool size and unique count lines, savefig
P_Save ==
    /\ pc = "comp_other"
    /\ unique_counts' = [i \in 1..Len(snapshots) |-> snapshots[i].uniqueCount]
    /\ pool_sizes' = [i \in 1..Len(snapshots) |-> snapshots[i].poolSize]
    /\ pc' = "comp_saved"
    /\ UNCHANGED <<edges, title, graphVars, cycleVars, snapshots, iter_order,
                   top_strands, strand_counts, other, ops, batchVars>>

NextComp == P_Skip \/ P_Select \/ P_Other \/ P_Save

SpecComp == InitComp /\ [][NextComp]_vars

(***************************************************************************)
(* process and the loop of __main__ over the records of a batch.  A record *)
(* is the loaded JSON object: the set of its top-level fields, and the     *)
(* values of productionEdges and snapshots where present.                  *)
(***************************************************************************)
MaxBatch == 2

AllFields == {"productionEdges", "snapshots", "config.name"}
EdgeKeys == {"catalyst", "product", "count"}

\* an edge that lacks its count
BrokenEdges == <<[catalyst |-> 1, product |-> 2]>>

Records ==
    {[fields |-> AllFields \ missing, edges |-> es, snapshots |-> sn] :
        missing \in {{}} \cup {{f} : f \in AllFields},
        es \in {<<>>, RingEdges(2), BrokenEdges},
        sn \in {[i \in 1..k |-> [Snapshot(Pool(0, 1), 0) EXCEPT !.op = i - 1]] : k \in 0..2}}

BatchInputs == UNION {[1..k -> Records] : k \in 0..MaxBatch}

Raised == {"KeyError", "ZeroDivisionError"}

EdgesComplete(es) == \A i \in 1..Len(es) : DOMAIN es[i] = EdgeKeys

\* variant: the snapshot test is < 1
CompOutcomeOffByOne(r) ==
    IF "snapshots" \notin r.fields THEN "KeyError"
    ELSE IF Len(r.snapshots) < 1 THEN "skipped"
    ELSE IF "config.name" \notin r.fields THEN "KeyError"
    ELSE "saved"

\* render_production_graph(result, ...): how the call ends
GraphOutcome(r) ==
    IF "productionEdges" \notin r.fields THEN "KeyError"
    ELSE IF r.edges = <<>> THEN "skipped"
    ELSE IF ~EdgesComplete(r.edges) THEN "KeyError"
    ELSE LET g == BuildGraph(r.edges) IN
         IF Len(g.nodes) = 0 THEN "returned"
         ELSE IF MaxDeg(Degree(g)) = 0 \/ MaxIn(InDegree(g)) = 0 \/ MaxW(g) = 0
              THEN "ZeroDivisionError"
         ELSE IF "config.name" \notin r.fields THEN "KeyError"
         ELSE "saved"

\* render_pool_composition(result, ...): how the call ends
CompOutcome(r) ==
    IF "snapshots" \notin r.fields THEN "KeyError"
    ELSE IF Len(r.snapshots) < 2 THEN "skipped"
    ELSE IF "config.name" \notin r.fields THEN "KeyError"
    ELSE "saved"

\* render_cycle_analysis(result, ...): how the call ends
CycleOutcome(r) ==
    IF "productionEdges" \notin r.fields THEN "KeyError"
    ELSE IF r.edges = <<>> THEN "returned"
    ELSE IF ~EdgesComplete(r.edges) THEN "KeyError"
    ELSE IF "config.name" \notin r.fields THEN "KeyError"
    ELSE "saved"

InitBatch ==
    /\ pc = "main"
    /\ batch \in BatchInputs
    /\ bi = 0
    /\ done_log = [i \in 1..Len(batch) |-> <<>>]
    /\ edges = <<>>
    /\ snapshots = <<>>
    /\ title = NoTitle
    /\ GraphIdle /\ CycleIdle /\ CompIdle

\* for name in ...: process(name), up to result = load_result(name)
M_Next ==
    /\ pc = "main"
    /\ bi < Len(batch)
    /\ bi' = bi + 1
    /\ pc' = "proc_graph"
    /\ UNCHANGED <<edges, title, graphVars, cycleVars, compVars, batch, done_log>>

\* the loop is over
M_Exit ==
    /\ pc = "main"
    /\ bi = Len(batch)
    /\ pc' = "exit"
    /\ UNCHANGED <<edges, title, graphVars, cycleVars, compVars, batchVars>>

\* how a call made by process ends: an exception is caught nowhere, neither
\* in process nor in the loop, and ends the program
Finish(outcome, next) ==
    /\ done_log' = [done_log EXCEPT ![bi] = Append(@, outcome)]
    /\ pc' = IF outcome \in Raised THEN "Traceback" ELSE next
    /\ UNCHANGED <<edges, title, graphVars, cycleVars, compVars, batch, bi>>

Pr_Graph ==
    /\ pc = "proc_graph"
    /\ Finish(GraphOutcome(batch[bi]), "proc_comp")

Pr_Comp ==
    /\ pc = "proc_comp"
    /\ Finish(CompOutcome(batch[bi]), "proc_cycles")

Pr_Cycles ==
    /\ pc = "proc_cycles"
    /\ Finish(CycleOutcome(batch[bi]), "main")

NextBatch == M_Next \/ M_Exit \/ Pr_Graph \/ Pr_Comp \/ Pr_Cycles

SpecBatch == InitBatch /\ [][NextBatch]_vars

(***************************************************************************)
(* What the input says, independently of the graph object.                 *)
(***************************************************************************)
EdgePairs == {<<edges[i].catalyst, edges[i].product>> : i \in 1..Len(edges)}

LastIndex(p) ==
    CHOOSE i \in 1..Len(edges) :
        /\ <<edges[i].catalyst, edges[i].product>> = p
        /\ \A j \in (i + 1)..Len(edges) : <<edges[j].catalyst, edges[j].product>> # p

LastCount(p) == edges[LastIndex(p)].count

GraphDone == {"graph_metrics", "graph_mutual", "graph_saved"}

\* unordered pairs {u, v}, u # v, produced in both directions
MutualPairs == {{p[1], p[2]} : p \in {q \in EdgePairs : q[1] # q[2] /\ <<q[2], q[1]>> \in EdgePairs}}

(***************************************************************************)
(* C1 (as claimed): the mutual list holds every mutual unordered pair      *)
(* exactly once and no self-loop, and the count in the title is the number *)
(* of mutual unordered pairs.                                              *)
(***************************************************************************)
C1_MutualPairsOnce ==
    pc = "graph_saved" =>
        /\ \A i \in 1..Len(mutual_edges) : mutual_edges[i][1] # mutual_edges[i][2]
        /\ \A m \in MutualPairs :
              Cardinality({i \in 1..Len(mutual_edges) :
                              {mutual_edges[i][1], mutual_edges[i][2]} = m}) = 1
        /\ title.mutual = Cardinality(MutualPairs)

(***************************************************************************)
(* C2: the built graph has exactly one edge per ordered pair of the input, *)
(* and its weight is the count of the last input edge with that pair.      *)
(***************************************************************************)
C2_LastWriteWins ==
    pc \in GraphDone \cup {"graph_built"} =>
        LET pairs == EdgePairs IN
        /\ \A u \in Nodes, v \in Nodes : HasEdge(G, u, v) <=> <<u, v>> \in pairs
        /\ \A u \in Nodes : Cardinality(Range(G.succ[u])) = Len(G.succ[u])
        /\ Len(EdgeList(G)) = Cardinality(pairs)
        /\ \A p \in pairs : G.weight[p] = LastCount(p)

\* a pair given twice with different counts has been built
C2_Witness ==
    /\ pc = "graph_built"
    /\ \E i \in 1..Len(edges), j \in 1..Len(edges) :
          /\ i < j
          /\ edges[i].catalyst = edges[j].catalyst
          /\ edges[i].product = edges[j].product
          /\ edges[i].count # edges[j].count
          /\ G.weight[<<edges[j].catalyst, edges[j].product>>] = edges[j].count

(***************************************************************************)
(* C9: normalization never divides by zero; every normalized total degree  *)
(* and in-degree lies in [0, 1], and a node attaining the maximum gets 1.  *)
(***************************************************************************)
InUnit(q) == q[2] > 0 /\ 0 <= q[1] /\ q[1] <= q[2]

C9_NormalizationDefined ==
    /\ pc # "ZeroDivisionError"
    /\ pc \in {"graph_metrics", "graph_mutual", "graph_saved"} =>
          /\ max_deg >= 1 /\ max_in >= 1
          /\ DOMAIN node_sizes = Range(G.nodes)
          /\ DOMAIN node_colors = Range(G.nodes)
          /\ \A n \in Range(G.nodes) :
                /\ InUnit(node_sizes[n]) /\ InUnit(node_colors[n])
                /\ node_sizes[n][1] = degrees[n]
                /\ node_colors[n][1] = in_degrees[n]
                /\ (\A m \in Range(G.nodes) : degrees[m] <= degrees[n])
                      => node_sizes[n][1] = node_sizes[n][2]
                /\ (\A m \in Range(G.nodes) : in_degrees[m] <= in_degrees[n])
                      => node_colors[n][1] = node_colors[n][2]

\* normalized values 0, strictly between 0 and 1, and 1 all occur
C9_Witness ==
    /\ pc = "graph_metrics"
    /\ \E n \in Range(G.nodes) : node_colors[n][1] = 0
    /\ \E n \in Range(G.nodes) : 0 < node_sizes[n][1] /\ node_sizes[n][1] < node_sizes[n][2]
    /\ \E n \in Range(G.nodes) : node_colors[n][1] = node_colors[n][2]

(***************************************************************************)
(* C10: the in-degrees and the out-degrees each sum to the number of       *)
(* distinct edges, and a node's total degree is its in-degree plus its     *)
(* out-degree, a self-loop counting once in each.                          *)
(***************************************************************************)
InOf(pairs, n)  == Cardinality({p \in pairs : p[2] = n})
OutOf(pairs, n) == Cardinality({p \in pairs : p[1] = n})

C10_DegreeSum ==
    pc \in GraphDone =>
        LET pairs == EdgePairs
            nodes == Range(G.nodes)
        IN
        /\ SumOver(in_degrees, nodes) = Cardinality(pairs)
        /\ SumOver([n \in nodes |-> degrees[n] - in_degrees[n]], nodes) = Cardinality(pairs)
        /\ \A n \in nodes :
              /\ in_degrees[n] = InOf(pairs, n)
              /\ degrees[n] = InOf(pairs, n) + OutOf(pairs, n)

\* a graph with a self-loop and a pair given twice has been measured
C10_Witness ==
    /\ pc = "graph_metrics"
    /\ \E n \in Nodes : <<n, n>> \in EdgePairs /\ degrees[n] = 2 /\ in_degrees[n] = 1
    /\ Cardinality(EdgePairs) < Len(edges)

(***************************************************************************)
(* The simple directed cycles of length 2..LengthBound of the input, each  *)
(* written from its smallest node.                                         *)
(***************************************************************************)
RECURSIVE PathsOfLen(_)
\* the paths of k nodes, no node repeated, that start at their smallest node
PathsOfLen(k) ==
    IF k = 1 THEN {<<n>> : n \in Nodes}
    ELSE UNION {{Append(p, w) : w \in {x \in Nodes : x > p[1] /\ x \notin Range(p)
                                                       /\ <<p[Len(p)], x>> \in EdgePairs}}
                : p \in PathsOfLen(k - 1)}

ShortCycles ==
    UNION {{p \in PathsOfLen(k) : <<p[k], p[1]>> \in EdgePairs} : k \in 2..LengthBound}

MinOf(S) == CHOOSE m \in S : \A x \in S : m <= x

\* the rotation of c that starts at its smallest node
Canon(c) ==
    LET k == CHOOSE i \in 1..Len(c) : c[i] = MinOf(Range(c))
    IN [i \in 1..Len(c) |-> c[((k + i - 2) % Len(c)) + 1]]

\* the sum of the last counts given for the edges of c, closing edge included
InputWeight(c) ==
    SumSeq([i \in 1..Len(c) |-> LastCount(<<c[i], IF i = Len(c) THEN c[1] ELSE c[i + 1]>>)])

(***************************************************************************)
(* C3: the cycles found are exactly the simple directed cycles of length 2 *)
(* to 4, each once (no rotation twice, no self-loop), and each total       *)
(* weight is the sum of the weights of its edges, closing edge included.   *)
(***************************************************************************)
C3_CyclesExact ==
    pc = "cycles_found" =>
        /\ \A i \in 1..Len(discovered) :
              LET c == discovered[i].cycle IN
              /\ Len(c) >= 2 /\ Len(c) <= LengthBound
              /\ Cardinality(Range(c)) = Len(c)
              /\ discovered[i].weight = InputWeight(c)
        /\ LET short == ShortCycles IN
              /\ {Canon(discovered[i].cycle) : i \in 1..Len(discovered)} = short
              /\ Len(discovered) = Cardinality(short)

\* a ring of three whose weight is the sum of its three edges, next to a
\* self-loop that is not reported
C3_Witness ==
    /\ pc = "cycles_found"
    /\ Len(discovered) = 1
    /\ Len(discovered[1].cycle) = 3
    /\ discovered[1].weight = InputWeight(discovered[1].cycle)
    /\ \E n \in Nodes : <<n, n>> \in EdgePairs

(***************************************************************************)
(* C4: the list is sorted by non-increasing total weight with ties in      *)
(* discovery order, the table holds the first 20 of it (all when fewer),   *)
(* and the count in the title is the number of cycles found.               *)
(***************************************************************************)
IndexIn(s, x) == CHOOSE i \in 1..Len(s) : s[i] = x

C4_RankedTruncated ==
    /\ pc = "cycles_saved" =>
          /\ Len(cycles) = Len(discovered)
          /\ Range(cycles) = Range(discovered)
          /\ \A i \in 1..(Len(cycles) - 1) :
                /\ cycles[i].weight >= cycles[i + 1].weight
                /\ cycles[i].weight = cycles[i + 1].weight
                      => IndexIn(discovered, cycles[i]) < IndexIn(discovered, cycles[i + 1])
    /\ pc = "cycles_saved" =>
          /\ Len(top_cycles) <= TopCycles
          /\ Len(top_cycles) = Min(TopCycles, Len(cycles))
          /\ \A i \in 1..Len(top_cycles) : top_cycles[i] = cycles[i]
          /\ title.found = Len(discovered)
          /\ discovered = <<>> => title.found = 0

\* more than 20 cycles of at least two weights, some tied, cut to 20
C4_Witness ==
    /\ pc = "cycles_saved"
    /\ title.found > TopCycles
    /\ Len(top_cycles) = TopCycles
    /\ top_cycles[1].weight > cycles[Len(cycles)].weight
    /\ top_cycles[1].weight = top_cycles[2].weight
    /\ discovered # cycles

(***************************************************************************)
(* C5 (as claimed): the strands selected are the 20 with the largest       *)
(* maximum count, ties broken by identifier, whatever the iteration order  *)
(* of the strand set.                                                      *)
(***************************************************************************)
\* x ranks before y: larger maximum, or the same maximum and smaller identifier
RanksBefore(x, y) ==
    \/ StrandMax(snapshots, x) > StrandMax(snapshots, y)
    \/ StrandMax(snapshots, x) = StrandMax(snapshots, y) /\ x < y

C5_DeterministicTopN ==
    pc = "comp_saved" =>
        LET all == AllStrands(snapshots) IN
        /\ Len(top_strands) = Min(TOP_N, Cardinality(all))
        /\ \A i \in 1..Len(top_strands) :
              /\ top_strands[i] \in all
              /\ Cardinality({y \in all : RanksBefore(y, top_strands[i])}) = i - 1

(***************************************************************************)
(* C6: other[i] is poolSize[i] minus the counts of the selected strands at *)
(* snapshot i (0 for a strand absent from the pool), never clamped; it is  *)
(* not negative when poolSize[i] is the sum of the pool, and it is 0 when  *)
(* moreover every strand of the pool is selected.                          *)
(***************************************************************************)
SelectedSum(i) ==
    SumSeq([x \in Strands |-> IF x \in Range(top_strands) THEN Get(snapshots[i].pool, x) ELSE 0])

C6_OtherSeries ==
    pc \in {"comp_other", "comp_saved"} =>
        /\ Len(other) = Len(snapshots)
        /\ \A i \in 1..Len(snapshots) :
              /\ other[i] = snapshots[i].poolSize - SelectedSum(i)
              /\ snapshots[i].poolSize = PoolSum(snapshots[i].pool) =>
                    /\ other[i] >= 0
                    /\ DOMAIN snapshots[i].pool \subseteq Range(top_strands) => other[i] = 0

\* more strands than are selected: one snapshot leaves a positive rest, the
\* other, one short of its pool, a negative one
C6_Witness ==
    /\ pc = "comp_other"
    /\ Cardinality(AllStrands(snapshots)) > TOP_N
    /\ other[1] > 0 /\ snapshots[1].poolSize = PoolSum(snapshots[1].pool)
    /\ other[2] < 0

(***************************************************************************)
(* Records of a batch.                                                     *)
(***************************************************************************)
WellFormed(r) == r.fields = AllFields /\ EdgesComplete(r.edges)

EmptyInput(r) == WellFormed(r) /\ (r.edges = <<>> \/ Len(r.snapshots) < 2)

\* process has returned for record i
Processed(i) == i < bi \/ (i = bi /\ pc \in {"main", "exit"})

(***************************************************************************)
(* C7 (as claimed): when the batch ends, every well-formed record of it    *)
(* has been processed to completion, whatever the other records are.       *)
(***************************************************************************)
C7_BatchIsolation ==
    pc \in {"exit", "Traceback"} =>
        \A i \in 1..Len(batch) :
            WellFormed(batch[i]) => Len(done_log[i]) = 3 /\ Range(done_log[i]) \cap Raised = {}

(***************************************************************************)
(* C8: a well-formed record with no production edges or fewer than two     *)
(* snapshots raises nothing: the graph and the cycle analysis end in a     *)
(* skip exactly when there is no edge, the composition exactly when there  *)
(* are fewer than two snapshots, and the others run to their artifact.     *)
(***************************************************************************)
C8_EmptyInputNotFatal ==
    /\ pc = "Traceback" => ~EmptyInput(batch[bi])
    /\ \A i \in 1..Len(batch) :
          EmptyInput(batch[i]) /\ Processed(i) =>
              done_log[i] = << IF batch[i].edges = <<>> THEN "skipped" ELSE "saved",
                               IF Len(batch[i].snapshots) < 2 THEN "skipped" ELSE "saved",
                               IF batch[i].edges = <<>> THEN "returned" ELSE "saved" >>

\* a record with edges and one snapshot, and one with snapshots and no edge,
\* have both been processed
C8_Witness ==
    /\ pc = "exit"
    /\ \E i \in 1..Len(batch) :
          /\ EmptyInput(batch[i]) /\ batch[i].edges # <<>> /\ Len(batch[i].snapshots) = 1
          /\ done_log[i] = <<"saved", "skipped", "saved">>
    /\ \E i \in 1..Len(batch) :
          /\ EmptyInput(batch[i]) /\ batch[i].edges = <<>> /\ Len(batch[i].snapshots) = 2
          /\ done_log[i] = <<"skipped", "saved", "returned">>

====
